---- MODULE Spec2Model ----
(***************************************************************************)
(* Model of src/src/boltzgen/utils/device.py: device selection helpers     *)
(* layered on the torch runtime (CUDA, MPS, CPU).                          *)
(*                                                                         *)
(* The module itself owns no state.  The state of the model is the torch   *)
(* runtime the helpers read (availability flags, device count, compute     *)
(* capability, whether entering an "mps" autocast scope works, and the     *)
(* allocator caches that empty_cache releases), together with a record of  *)
(* the most recent call and of the results observed so far.                *)
(***************************************************************************)
EXTENDS Integers, Sequences, FiniteSets, TLC

VARIABLES torch, last, seen

vars == <<torch, last, seen>>

\* ------------------------------------------------------------------------
\* Bounds of the runtime states explored
\* ------------------------------------------------------------------------
MaxCount == 2
MaxMajor == 9
MaxMinor == 0

\* ------------------------------------------------------------------------
\* Values of the program
\* ------------------------------------------------------------------------
\* (8, 0): the capability reported for MPS and CPU
DefaultCapability == <<8, 0>>

\* the single device reported for MPS and CPU
SingleDevice == 1

\* except (RuntimeError, TypeError)
CaughtByAutocastProbe == {"RuntimeError", "TypeError"}

DeviceTypes == {"cuda", "mps", "cpu"}

QueryOps == {"get_device_type", "get_device", "get_device_count",
             "get_device_capability", "get_autocast_device_type"}

\* ------------------------------------------------------------------------
\* The torch runtime
\* ------------------------------------------------------------------------
\* outcomes of "with torch.autocast(device_type='mps'): pass": the scope is
\* entered and left, or torch rejects the device type with a RuntimeError
\* (a TypeError is the other rejection the code provides for)
ProbeOutcomes == {"ok", "RuntimeError", "TypeError"}

\* outcomes of torch.cuda.empty_cache() / torch.mps.empty_cache()
ClearOutcomes == {"ok", "RuntimeError"}

Capabilities == (DefaultCapability[1] .. MaxMajor) \X (0 .. MaxMinor)

\* hasMps: torch.backends has the attribute "mps"; a runtime without it has
\* no secondary availability to report.
TorchStates ==
    { t \in [ cudaAvailable : BOOLEAN,
              hasMps        : BOOLEAN,
              mpsAvailable  : BOOLEAN,
              cudaCount     : 0 .. MaxCount,
              cudaCap       : Capabilities,
              autocastProbe : ProbeOutcomes,
              cudaCache     : BOOLEAN,
              mpsCache      : BOOLEAN ] :
        ~t.hasMps => ~t.mpsAvailable }

\* result of a call: ret is <<value>> when the call returned and <<>> when
\* it raised; calls lists the runtime APIs invoked, in order.
Returns(v, c) == [ret |-> <<v>>, raised |-> "none", calls |-> c]

Raises(e, c) == [ret |-> <<>>, raised |-> e, calls |-> c]

\* torch.backends.mps.is_available(): AttributeError on a runtime without
\* torch.backends.mps
mps_is_available(t) ==
    IF t.hasMps
    THEN Returns(t.mpsAvailable, <<"mps.is_available">>)
    ELSE Raises("AttributeError", <<"mps.is_available">>)

\* torch.device(type): the handle built from a type string
torch_device(type) == [type |-> type, index |-> "None"]

\* torch.cuda.empty_cache() with outcome o
cuda_empty_cache(t, o) ==
    IF o = "ok" THEN [t EXCEPT !.cudaCache = FALSE] ELSE t

\* torch.mps.empty_cache() with outcome o
mps_empty_cache(t, o) ==
    IF o = "ok" THEN [t EXCEPT !.mpsCache = FALSE] ELSE t

\* ------------------------------------------------------------------------
\* device.py
\* ------------------------------------------------------------------------
\* mutant: secondary accelerator probed first
get_device_type_mps_first(t) ==
    IF t.hasMps /\ t.mpsAvailable
    THEN Returns("mps", <<"hasattr(backends, mps)", "mps.is_available">>)
    ELSE IF t.cudaAvailable
         THEN Returns("cuda", <<"hasattr(backends, mps)", "cuda.is_available">>)
         ELSE Returns("cpu", <<"hasattr(backends, mps)", "cuda.is_available">>)

\* mutant: no hasattr guard in front of torch.backends.mps.is_available()
get_device_type_no_hasattr(t) ==
    IF t.cudaAvailable
    THEN Returns("cuda", <<"cuda.is_available">>)
    ELSE LET m == mps_is_available(t) IN
         IF m.raised # "none"
         THEN Raises(m.raised, <<"cuda.is_available">> \o m.calls)
         ELSE IF m.ret[1]
              THEN Returns("mps", <<"cuda.is_available">> \o m.calls)
              ELSE Returns("cpu", <<"cuda.is_available">> \o m.calls)

\* mutant: once the autocast probe fell back to "cpu", "cpu" stays selected
get_device_type_sticky_fallback(t) ==
    IF /\ last.op = "get_autocast_device_type"
       /\ last.raised = "none"
       /\ last.ret = <<"cpu">>
    THEN Returns("cpu", <<>>)
    ELSE IF t.cudaAvailable
         THEN Returns("cuda", <<"cuda.is_available">>)
         ELSE IF t.hasMps /\ t.mpsAvailable
              THEN Returns("mps", <<"cuda.is_available",
                                    "hasattr(backends, mps)",
                                    "mps.is_available">>)
              ELSE Returns("cpu", <<"cuda.is_available",
                                    "hasattr(backends, mps)">>)

get_device_type(t) ==
    IF t.cudaAvailable
    THEN Returns("cuda", <<"cuda.is_available">>)
    ELSE IF ~t.hasMps
         THEN Returns("cpu", <<"cuda.is_available", "hasattr(backends, mps)">>)
         ELSE LET m == mps_is_available(t)
                  c == <<"cuda.is_available", "hasattr(backends, mps)">>
                         \o m.calls
              IN IF m.raised # "none"
                 THEN Raises(m.raised, c)
                 ELSE IF m.ret[1] THEN Returns("mps", c)
                                  ELSE Returns("cpu", c)

\* mutant: only CUDA and CPU handles are ever built
get_device_no_mps(t) ==
    LET d == get_device_type(t) IN
    IF d.raised # "none" THEN d
    ELSE Returns(torch_device(IF d.ret[1] = "cuda" THEN "cuda" ELSE "cpu"),
                 d.calls \o <<"torch.device">>)

get_device(t) ==
    LET d == get_device_type(t) IN
    IF d.raised # "none" THEN d
    ELSE Returns(torch_device(d.ret[1]), d.calls \o <<"torch.device">>)

\* mutant: a CUDA runtime with zero devices reported as one device
get_device_count_at_least_one(t) ==
    LET d == get_device_type(t) IN
    IF d.raised # "none" THEN d
    ELSE IF d.ret[1] = "cuda"
         THEN Returns(IF t.cudaCount = 0 THEN SingleDevice ELSE t.cudaCount,
                      d.calls \o <<"cuda.device_count">>)
         ELSE Returns(SingleDevice, d.calls)

get_device_count(t) ==
    LET d == get_device_type(t) IN
    IF d.raised # "none" THEN d
    ELSE IF d.ret[1] = "cuda"
         THEN Returns(t.cudaCount, d.calls \o <<"cuda.device_count">>)
         ELSE Returns(SingleDevice, d.calls)

\* mutant: the default is returned for CPU only
get_device_capability_cpu_only(t) ==
    LET d == get_device_type(t) IN
    IF d.raised # "none" THEN d
    ELSE IF d.ret[1] # "cpu"
         THEN Returns(t.cudaCap, d.calls \o <<"cuda.get_device_capability">>)
         ELSE Returns(DefaultCapability, d.calls)

get_device_capability(t) ==
    LET d == get_device_type(t) IN
    IF d.raised # "none" THEN d
    ELSE IF d.ret[1] = "cuda"
         THEN Returns(t.cudaCap, d.calls \o <<"cuda.get_device_capability">>)
         ELSE Returns(DefaultCapability, d.calls)

\* a call of empty_cache also yields the runtime it leaves behind
ReturnsIn(t, v, c) == [ret |-> <<v>>, raised |-> "none", calls |-> c, torch |-> t]

RaisesIn(t, e, c) == [ret |-> <<>>, raised |-> e, calls |-> c, torch |-> t]

\* mutant: a failing cache-clear is swallowed (try: ... except: pass)
empty_cache_swallows(t, oc, om) ==
    LET d == get_device_type(t) IN
    IF d.raised # "none" THEN RaisesIn(t, d.raised, d.calls)
    ELSE IF d.ret[1] = "cuda"
         THEN ReturnsIn(cuda_empty_cache(t, oc), "None",
                        d.calls \o <<"cuda.empty_cache">>)
         ELSE IF d.ret[1] = "mps"
              THEN ReturnsIn(mps_empty_cache(t, om), "None",
                             d.calls \o <<"mps.empty_cache">>)
              ELSE ReturnsIn(t, "None", d.calls)

\* mutant: every accelerator the runtime knows is cleared, selected or not
empty_cache_clears_all(t, oc, om) ==
    LET d  == get_device_type(t)
        c1 == d.calls \o <<"cuda.empty_cache">>
        t1 == cuda_empty_cache(t, oc)
    IN
    IF d.raised # "none" THEN RaisesIn(t, d.raised, d.calls)
    ELSE IF oc # "ok" THEN RaisesIn(t1, oc, c1)
    ELSE IF ~t.hasMps THEN ReturnsIn(t1, "None", c1)
    ELSE IF om # "ok"
         THEN RaisesIn(mps_empty_cache(t1, om), om, c1 \o <<"mps.empty_cache">>)
         ELSE ReturnsIn(mps_empty_cache(t1, om), "None",
                        c1 \o <<"mps.empty_cache">>)

\* oc, om: the outcomes of torch.cuda.empty_cache() and
\* torch.mps.empty_cache(), should the call reach them
empty_cache(t, oc, om) ==
    LET d == get_device_type(t) IN
    IF d.raised # "none" THEN RaisesIn(t, d.raised, d.calls)
    ELSE IF d.ret[1] = "cuda"
         THEN LET c == d.calls \o <<"cuda.empty_cache">>
                  n == cuda_empty_cache(t, oc)
              IN IF oc # "ok" THEN RaisesIn(n, oc, c)
                              ELSE ReturnsIn(n, "None", c)
         ELSE IF d.ret[1] = "mps"
              THEN LET c == d.calls \o <<"mps.empty_cache">>
                       n == mps_empty_cache(t, om)
                   IN IF om # "ok" THEN RaisesIn(n, om, c)
                                   ELSE ReturnsIn(n, "None", c)
              ELSE ReturnsIn(t, "None", d.calls)

\* mutant: None when MPS autocast is unsupported, as the docstring says
get_autocast_device_type_none(t) ==
    LET d == get_device_type(t) IN
    IF d.raised # "none" THEN d
    ELSE IF d.ret[1] \in {"cuda", "cpu"}
         THEN Returns(d.ret[1], d.calls)
         ELSE IF d.ret[1] = "mps"
              THEN LET c == d.calls \o <<"torch.autocast(mps)">> IN
                   IF t.autocastProbe = "ok" THEN Returns("mps", c)
                   ELSE IF t.autocastProbe \in CaughtByAutocastProbe
                        THEN Returns("None", c)
                        ELSE Raises(t.autocastProbe, c)
              ELSE Returns("cpu", d.calls)

\* mutant: except RuntimeError only
get_autocast_device_type_runtime_error_only(t) ==
    LET d == get_device_type(t) IN
    IF d.raised # "none" THEN d
    ELSE IF d.ret[1] \in {"cuda", "cpu"}
         THEN Returns(d.ret[1], d.calls)
         ELSE IF d.ret[1] = "mps"
              THEN LET c == d.calls \o <<"torch.autocast(mps)">> IN
                   IF t.autocastProbe = "ok" THEN Returns("mps", c)
                   ELSE IF t.autocastProbe \in {"RuntimeError"}
                        THEN Returns("cpu", c)
                        ELSE Raises(t.autocastProbe, c)
              ELSE Returns("cpu", d.calls)

get_autocast_device_type(t) ==
    LET d == get_device_type(t) IN
    IF d.raised # "none" THEN d
    ELSE IF d.ret[1] \in {"cuda", "cpu"}
         THEN Returns(d.ret[1], d.calls)
         ELSE IF d.ret[1] = "mps"
              THEN LET c == d.calls \o <<"torch.autocast(mps)">> IN
                   IF t.autocastProbe = "ok" THEN Returns("mps", c)
                   ELSE IF t.autocastProbe \in CaughtByAutocastProbe
                        THEN Returns("cpu", c)
                        ELSE Raises(t.autocastProbe, c)
              ELSE Returns("cpu", d.calls)

\* ------------------------------------------------------------------------
\* State machine: calls of the module interleaved with changes of the runtime
\* ------------------------------------------------------------------------
NoCall(t) ==
    [op |-> "none", ret |-> <<>>, raised |-> "none", calls |-> <<>>,
     before |-> t, oc |-> "n/a", om |-> "n/a", repeat |-> FALSE]

NothingSeen == [op \in QueryOps |-> {}]

\* the record of a call of op with result r in runtime t
Called(op, r, t, oc, om) ==
    [op |-> op, ret |-> r.ret, raised |-> r.raised, calls |-> r.calls,
     before |-> t, oc |-> oc, om |-> om,
     repeat |-> IF op \in QueryOps THEN seen[op] # {} ELSE FALSE]

Observed(r) == [ret |-> r.ret, raised |-> r.raised]

\* a runtime whose allocator caches hold memory
Init ==
    /\ torch \in {t \in TorchStates : t.cudaCache /\ t.mpsCache}
    /\ last = NoCall(torch)
    /\ seen = NothingSeen

Query(op, r) ==
    /\ last' = Called(op, r, torch, "n/a", "n/a")
    /\ seen' = [seen EXCEPT ![op] = @ \cup {Observed(r)}]
    /\ UNCHANGED torch

CallGetDeviceType == Query("get_device_type", get_device_type(torch))

CallGetDevice == Query("get_device", get_device(torch))

CallGetDeviceCount == Query("get_device_count", get_device_count(torch))

CallGetDeviceCapability ==
    Query("get_device_capability", get_device_capability(torch))

CallGetAutocastDeviceType ==
    Query("get_autocast_device_type", get_autocast_device_type(torch))

CallEmptyCache ==
    \E oc \in ClearOutcomes, om \in ClearOutcomes :
        LET r == empty_cache(torch, oc, om) IN
        /\ torch' = r.torch
        /\ last' = Called("empty_cache", r, torch, oc, om)
        /\ UNCHANGED seen

\* the runtime after a change of what it reports
Changed(t) ==
    /\ t \in TorchStates
    /\ torch' = t
    /\ last' = NoCall(t)
    /\ seen' = NothingSeen

\* the primary accelerator appears or disappears
CudaAvailabilityChanges ==
    Changed([torch EXCEPT !.cudaAvailable = ~@])

\* the secondary accelerator, or the runtime's API for it, appears or
\* disappears
MpsAvailabilityChanges ==
    \E h \in BOOLEAN, m \in BOOLEAN :
        /\ <<h, m>> # <<torch.hasMps, torch.mpsAvailable>>
        /\ Changed([torch EXCEPT !.hasMps = h, !.mpsAvailable = m])

DeviceCountChanges ==
    \E n \in (0 .. MaxCount) \ {torch.cudaCount} :
        Changed([torch EXCEPT !.cudaCount = n])

CapabilityChanges ==
    \E c \in Capabilities \ {torch.cudaCap} :
        Changed([torch EXCEPT !.cudaCap = c])

AutocastSupportChanges ==
    \E o \in ProbeOutcomes \ {torch.autocastProbe} :
        Changed([torch EXCEPT !.autocastProbe = o])

\* work on the accelerators fills their allocator caches again
Allocates ==
    /\ ~(torch.cudaCache /\ torch.mpsCache)
    /\ torch' = [torch EXCEPT !.cudaCache = TRUE, !.mpsCache = TRUE]
    /\ last' = NoCall(torch')
    /\ UNCHANGED seen

Next ==
    \/ CallGetDeviceType
    \/ CallGetDevice
    \/ CallGetDeviceCount
    \/ CallGetDeviceCapability
    \/ CallGetAutocastDeviceType
    \/ CallEmptyCache
    \/ CudaAvailabilityChanges
    \/ MpsAvailabilityChanges
    \/ DeviceCountChanges
    \/ CapabilityChanges
    \/ AutocastSupportChanges
    \/ Allocates

Spec == Init /\ [][Next]_vars

TypeOK ==
    /\ torch \in TorchStates
    /\ last.op \in QueryOps \cup {"empty_cache", "none"}
    /\ last.raised = "none" <=> (last.op # "none" => Len(last.ret) = 1)

\* ------------------------------------------------------------------------
\* Properties
\* ------------------------------------------------------------------------
\* the type get_device_type selects in runtime t
Selected(t) == get_device_type(t).ret[1]

SecondaryAvailable(t) == t.hasMps /\ t.mpsAvailable

\* how often the runtime API a occurs among the calls c
Invocations(c, a) == Cardinality({i \in 1 .. Len(c) : c[i] = a})

\* C1: get_device_type returns "cuda" whenever the primary accelerator is
\* available, "mps" only when the primary is unavailable and the secondary is
\* available, and "cpu" only when neither is available; it always returns
\* one of the three.
C1_SelectByPriority ==
    last.op = "get_device_type" =>
        /\ last.raised = "none"
        /\ last.ret[1] \in DeviceTypes
        /\ last.before.cudaAvailable => last.ret[1] = "cuda"
        /\ last.ret[1] = "cuda" => last.before.cudaAvailable
        /\ last.ret[1] = "mps" <=>
              (~last.before.cudaAvailable /\ SecondaryAvailable(last.before))
        /\ last.ret[1] = "cpu" <=>
              (~last.before.cudaAvailable /\ ~SecondaryAvailable(last.before))

C1_Witness ==
    /\ last.op = "get_device_type"
    /\ last.before.cudaAvailable
    /\ SecondaryAvailable(last.before)
    /\ last.ret = <<"cuda">>

ClearReached ==
    IF Selected(last.before) = "cuda" THEN last.oc
    ELSE IF Selected(last.before) = "mps" THEN last.om
    ELSE "ok"

\* C4 as stated: empty_cache never raises and returns no value, even when
\* the underlying cache-clear fails.
C4_NeverRaises ==
    last.op = "empty_cache" =>
        /\ last.raised = "none"
        /\ last.ret = <<"None">>

\* C4 as amended: empty_cache returns no value and does not raise when the
\* selected type is "cpu" or the selected accelerator's cache-clear
\* succeeds; when that cache-clear fails, its error reaches the caller.
C4_RaisesWhatClearRaises ==
    last.op = "empty_cache" =>
        IF ClearReached = "ok"
        THEN last.raised = "none" /\ last.ret = <<"None">>
        ELSE last.raised = ClearReached /\ last.ret = <<>>

C4_Witness ==
    /\ last.op = "empty_cache"
    /\ Selected(last.before) = "cuda"
    /\ last.oc = "RuntimeError"
    /\ last.raised = "RuntimeError"

\* C5: get_device_count returns 1 when the selected type is "mps" or "cpu"
\* and the primary runtime's count, 0 included, when it is "cuda".
C5_DeviceCount ==
    last.op = "get_device_count" =>
        /\ last.raised = "none"
        /\ Selected(last.before) \in {"mps", "cpu"} => last.ret = <<1>>
        /\ Selected(last.before) = "cuda" =>
              last.ret = <<last.before.cudaCount>>

C5_Witness ==
    /\ last.op = "get_device_count"
    /\ Selected(last.before) = "cuda"
    /\ last.before.cudaCount = 0
    /\ last.ret = <<0>>

\* C6: get_device_capability returns (8, 0) when the selected type is "mps"
\* or "cpu", without querying the primary runtime, and the primary runtime's
\* pair when it is "cuda".
C6_DeviceCapability ==
    last.op = "get_device_capability" =>
        /\ last.raised = "none"
        /\ Selected(last.before) \in {"mps", "cpu"} =>
              /\ last.ret = << <<8, 0>> >>
              /\ Invocations(last.calls, "cuda.get_device_capability") = 0
        /\ Selected(last.before) = "cuda" =>
              last.ret = <<last.before.cudaCap>>

C6_Witness ==
    /\ last.op = "get_device_capability"
    /\ Selected(last.before) = "mps"
    /\ last.before.cudaCap # <<8, 0>>
    /\ last.ret = << <<8, 0>> >>

\* C7: the handle get_device returns carries the type that get_device_type
\* returns in the same runtime state.
C7_DeviceMatchesType ==
    \A d \in seen["get_device"] :
        /\ d.raised = "none"
        /\ d.ret[1].type \in DeviceTypes
        /\ \A s \in seen["get_device_type"] :
              s.raised = "none" /\ d.ret[1].type = s.ret[1]

C7_Witness ==
    /\ seen["get_device_type"] = {[ret |-> <<"mps">>, raised |-> "none"]}
    /\ \E d \in seen["get_device"] : d.ret[1].type = "mps"

\* C8: one empty_cache call invokes at most one cache-clear, that of the
\* selected type: CUDA's exactly when "cuda" is selected, MPS's exactly when
\* "mps" is; for "cpu" it invokes neither, changes nothing and does not raise.
C8_ClearsSelectedOnly ==
    last.op = "empty_cache" =>
        /\ Invocations(last.calls, "cuda.empty_cache")
             + Invocations(last.calls, "mps.empty_cache") <= 1
        /\ Invocations(last.calls, "cuda.empty_cache") = 1
              <=> Selected(last.before) = "cuda"
        /\ Invocations(last.calls, "mps.empty_cache") = 1
              <=> Selected(last.before) = "mps"
        /\ Selected(last.before) # "cuda" =>
              torch.cudaCache = last.before.cudaCache
        /\ Selected(last.before) # "mps" =>
              torch.mpsCache = last.before.mpsCache
        /\ Selected(last.before) = "cpu" =>
              /\ torch = last.before
              /\ last.raised = "none"

C8_Witness ==
    /\ last.op = "empty_cache"
    /\ Selected(last.before) = "mps"
    /\ last.before.cudaCache /\ torch.cudaCache
    /\ last.before.mpsCache /\ ~torch.mpsCache

SecondaryApis == {"mps.is_available", "mps.empty_cache", "torch.autocast(mps)"}

\* C9: on a runtime without torch.backends.mps, get_device_type does not
\* call the secondary availability API and does not raise; it returns "cuda"
\* if the primary is available and "cpu" otherwise, and no operation invokes
\* the secondary cache-clear or the secondary autocast probe.
C9_NoSecondaryApi ==
    (last.op # "none" /\ ~last.before.hasMps) =>
        /\ \A a \in SecondaryApis : Invocations(last.calls, a) = 0
        /\ last.raised # "AttributeError"
        /\ last.op = "get_device_type" =>
              /\ last.raised = "none"
              /\ last.ret =
                   <<IF last.before.cudaAvailable THEN "cuda" ELSE "cpu">>

C9_Witness ==
    /\ last.op = "get_device_type"
    /\ ~last.before.hasMps
    /\ ~last.before.cudaAvailable
    /\ last.ret = <<"cpu">>

====
